---- MODULE Spec2Model ----
(***************************************************************************)
(* Model of docs/qbittorrent/torrust.py: the qBittorrent search plugin of   *)
(* the Torrust index.  torrust.search(what, cat) resolves the category,    *)
(* builds the request URL, fetches it with retrieve_url, decodes the JSON  *)
(* body and hands one normalized record per result to prettyPrinter.       *)
(*                                                                         *)
(* Python strings are sequences of one-character strings, so that          *)
(* urlencode, strptime, str iteration and f-string concatenation are       *)
(* computed character by character.                                        *)
(***************************************************************************)
EXTENDS Integers, Sequences, FiniteSets, TLC

VARIABLES
    supported_categories,  \* the class attribute torrust.supported_categories
    pc,          \* per call: the statement of search the call is about to run
    what,        \* per call: argument `what`
    cat,         \* per call: argument `cat`
    net,         \* per call: what the host's retrieve_url will answer
    categories,  \* per call: local `categories`
    response,    \* per call: local `response`, the body retrieve_url returned
    json_data,   \* per call: local `json_data`
    results,     \* per call: local `results`
    it,          \* per call: how many items the for loop has taken
    err,         \* per call: the exception that ended the call, or "none"
    fetched,     \* every retrieve_url invocation, in order: [call, url]
    printed      \* every prettyPrinter invocation, in order: [call, info]

vars == <<supported_categories, pc, what, cat, net, categories, response,
          json_data, results, it, err, fetched, printed>>

----------------------------------------------------------------------------
(* Bounds of the model *)

NumCalls == 2
MaxResults == 3
MaxLen == 2

Calls == 1..NumCalls

----------------------------------------------------------------------------
(* Python values: None, bool, int, str, list, dict.  One record shape for   *)
(* all of them; dict entries are kept in insertion order.                  *)

PyVal(t, n, s, a, o) == [t |-> t, n |-> n, s |-> s, a |-> a, o |-> o]
PyNone == PyVal("NoneType", 0, <<>>, <<>>, <<>>)
PyBool(b) == PyVal("bool", IF b THEN 1 ELSE 0, <<>>, <<>>, <<>>)
PyInt(n) == PyVal("int", n, <<>>, <<>>, <<>>)
PyStr(s) == PyVal("str", 0, s, <<>>, <<>>)
PyList(a) == PyVal("list", 0, <<>>, a, <<>>)
PyDict(o) == PyVal("dict", 0, <<>>, <<>>, o)
Entry(k, v) == [k |-> k, v |-> v]
Unbound == PyVal("unbound", 0, <<>>, <<>>, <<>>)

(* the outcome of an expression: a value, or a raised exception *)
Ok(v) == [exc |-> "none", val |-> v]
Raise(e) == [exc |-> e, val |-> Unbound]

----------------------------------------------------------------------------
(* String literals of the source *)

url == <<"h", "t", "t", "p", "s", ":", "/", "/", "i", "n", "d", "e", "x", ".", "t", "o", "r", "r", "u", "s", "t", "-", "d", "e", "m", "o", ".", "c", "o", "m">>
name == <<"T", "o", "r", "r", "u", "s", "t">>
base_url == <<"h", "t", "t", "p", "s", ":", "/", "/", "i", "n", "d", "e", "x", ".", "t", "o", "r", "r", "u", "s", "t", "-", "d", "e", "m", "o", ".", "c", "o", "m", "/", "a", "p", "i", "/", "v", "1", "/", "t", "o", "r", "r", "e", "n", "t", "s", "?">>
magnet_prefix == <<"m", "a", "g", "n", "e", "t", ":", "?", "x", "t", "=", "u", "r", "n", ":", "b", "t", "i", "h", ":">>
torrent_path == <<"/", "t", "o", "r", "r", "e", "n", "t", "/">>
date_format == <<"%", "Y", "-", "%", "m", "-", "%", "d", " ", "%", "H", ":", "%", "M", ":", "%", "S">>
k_search == <<"s", "e", "a", "r", "c", "h">>
k_categories == <<"c", "a", "t", "e", "g", "o", "r", "i", "e", "s">>
k_data == <<"d", "a", "t", "a">>
k_results == <<"r", "e", "s", "u", "l", "t", "s">>
k_info_hash == <<"i", "n", "f", "o", "_", "h", "a", "s", "h">>
k_title == <<"t", "i", "t", "l", "e">>
k_file_size == <<"f", "i", "l", "e", "_", "s", "i", "z", "e">>
k_seeders == <<"s", "e", "e", "d", "e", "r", "s">>
k_leechers == <<"l", "e", "e", "c", "h", "e", "r", "s">>
k_date_uploaded == <<"d", "a", "t", "e", "_", "u", "p", "l", "o", "a", "d", "e", "d">>

(* the dict literal of lines 30-38 *)
CategoryTable ==
    [k \in {"all", "movies", "tv", "games", "music", "software", "books"} |->
        CASE k = "all" -> PyStr(<<>>)
          [] k = "movies" -> PyStr(<<"m", "o", "v", "i", "e", "s">>)
          [] k = "tv" -> PyStr(<<"t", "v", " ", "s", "h", "o", "w", "s">>)
          [] k = "games" -> PyStr(<<"g", "a", "m", "e", "s">>)
          [] k = "music" -> PyStr(<<"m", "u", "s", "i", "c">>)
          [] k = "software" -> PyStr(<<"s", "o", "f", "t", "w", "a", "r", "e">>)
          [] k = "books" -> PyList(<<PyStr(<<"a", "u", "d", "i", "o", "b", "o", "o", "k">>),
                                     PyStr(<<"p", "a", "p", "e", "r">>)>>)]

(* the categories the docstrings of lines 22 and 63 list as possible *)
PossibleCategories ==
    {"all", "anime", "books", "games", "movies", "music", "pictures", "software", "tv"}

----------------------------------------------------------------------------
(* Query building, lines 65-69 *)


(* variant of Lookup: supported_categories.get(cat, '') instead of the      *)
(* subscript, so that an unknown token searches all categories              *)
LookupDefault(table, key) ==
    IF key \in DOMAIN table THEN Ok(table[key]) ELSE Ok(PyStr(<<>>))

(* d[key] on a dict whose keys are category tokens: line 66 *)
Lookup(table, key) ==
    IF key \in DOMAIN table THEN Ok(table[key]) ELSE Raise("KeyError")

(* sep.join(items) for a list of str *)
RECURSIVE Join(_, _)
Join(sep, items) ==
    IF Len(items) = 0 THEN <<>>
    ELSE IF Len(items) = 1 THEN items[1].s
    ELSE items[1].s \o sep \o Join(sep, Tail(items))

(* line 67: ','.join(v) if isinstance(v, list) else v *)
ResolveCategories(category_value) ==
    IF category_value.t = "list" THEN Join(<<",">>, category_value.a)
    ELSE category_value.s

Letters ==
    {"a", "b", "c", "d", "e", "f", "g", "h", "i", "j", "k", "l", "m", "n", "o",
     "p", "q", "r", "s", "t", "u", "v", "w", "x", "y", "z",
     "A", "B", "C", "D", "E", "F", "G", "H", "I", "J", "K", "L", "M", "N", "O",
     "P", "Q", "R", "S", "T", "U", "V", "W", "X", "Y", "Z"}
Digits == {"0", "1", "2", "3", "4", "5", "6", "7", "8", "9"}

(* urllib.parse: the characters quote never escapes *)
AlwaysSafe == Letters \cup Digits \cup {"_", ".", "-", "~"}

(* code points of the escaped characters the model uses *)
Ord(ch) ==
    CASE ch = " " -> 32
      [] ch = "%" -> 37
      [] ch = "&" -> 38
      [] ch = "+" -> 43
      [] ch = "," -> 44
      [] ch = "/" -> 47
      [] ch = ":" -> 58
      [] ch = "=" -> 61
      [] ch = "?" -> 63
      [] ch = "é" -> 233

HexDigits == <<"0", "1", "2", "3", "4", "5", "6", "7", "8", "9",
               "A", "B", "C", "D", "E", "F">>

(* '%{:02X}'.format(byte) *)
PercentByte(b) == <<"%", HexDigits[(b \div 16) + 1], HexDigits[(b % 16) + 1]>>

(* str.encode('utf-8') of one character below U+0800 *)
Utf8(cp) ==
    IF cp < 128 THEN <<cp>>
    ELSE <<192 + (cp \div 64), 128 + (cp % 64)>>


(* variant of QuotePlusChar: quote instead of quote_plus, the space         *)
(* escaped as %20                                                           *)
QuoteChar(ch) ==
    IF ch \in AlwaysSafe THEN <<ch>>
    ELSE LET bytes == Utf8(Ord(ch))
         IN  IF Len(bytes) = 1 THEN PercentByte(bytes[1])
             ELSE PercentByte(bytes[1]) \o PercentByte(bytes[2])

(* quote_plus on one character: space becomes '+', safe characters stay,    *)
(* every other character becomes the %XX of its UTF-8 bytes                 *)
QuotePlusChar(ch) ==
    IF ch = " " THEN <<"+">>
    ELSE IF ch \in AlwaysSafe THEN <<ch>>
    ELSE LET bytes == Utf8(Ord(ch))
         IN  IF Len(bytes) = 1 THEN PercentByte(bytes[1])
             ELSE PercentByte(bytes[1]) \o PercentByte(bytes[2])

RECURSIVE quote_plus(_)
quote_plus(s) ==
    IF Len(s) = 0 THEN <<>> ELSE QuotePlusChar(Head(s)) \o quote_plus(Tail(s))

(* urllib.parse.urlencode of a dict with str keys and str values *)
RECURSIVE urlencode(_)
urlencode(params) ==
    IF Len(params) = 0 THEN <<>>
    ELSE LET pair == quote_plus(params[1].k) \o <<"=">> \o quote_plus(params[1].v)
         IN  IF Len(params) = 1 THEN pair
             ELSE pair \o <<"&">> \o urlencode(Tail(params))

(* lines 68-69: base_url % urlencode({'search': what, 'categories': categories}) *)
RequestUrl(w, cats) ==
    base_url \o urlencode(<<Entry(k_search, w), Entry(k_categories, cats)>>)

----------------------------------------------------------------------------
(* Decoding and navigation, lines 71-74 *)

(* json.loads: a body is either text that is no JSON document, or the text  *)
(* of a document, held as the value json.loads builds from it              *)
Malformed == [valid |-> FALSE, doc |-> Unbound]
Document(v) == [valid |-> TRUE, doc |-> v]


(* variant of json_loads: a body that is no JSON decodes to an empty object *)
json_loads_lenient(body) ==
    IF body.valid THEN Ok(body.doc) ELSE Ok(PyDict(<<>>))

json_loads(body) ==
    IF body.valid THEN Ok(body.doc) ELSE Raise("JSONDecodeError")

(* the position of key in a dict's entries, 0 when absent *)
KeyIndex(o, key) ==
    IF \E i \in 1..Len(o) : o[i].k = key
    THEN CHOOSE i \in 1..Len(o) : o[i].k = key
    ELSE 0

(* v[key] with a str key: KeyError on a dict without it, TypeError on       *)
(* anything that is not a dict (list and str take integer indices only,     *)
(* None, bool and int are not subscriptable)                                *)
Subscript(v, key) ==
    IF v.t = "dict"
    THEN IF KeyIndex(v.o, key) = 0 THEN Raise("KeyError")
         ELSE Ok(v.o[KeyIndex(v.o, key)].v)
    ELSE Raise("TypeError")

(* line 72: json_data['data']['results'] *)
Navigate(doc) ==
    LET data == Subscript(doc, k_data)
    IN  IF data.exc # "none" THEN data ELSE Subscript(data.val, k_results)


(* variant of Iterable: `for result in results or []`, None read as empty   *)
IterableOrNone(v) == v.t \in {"list", "str", "dict", "NoneType"}

(* iter(v): a list yields its items, a str its characters, a dict its keys; *)
(* None, bool and int raise TypeError                                       *)
Iterable(v) == v.t \in {"list", "str", "dict"}

Items(v) ==
    CASE v.t = "list" -> v.a
      [] v.t = "str" -> [i \in 1..Len(v.s) |-> PyStr(<<v.s[i]>>)]
      [] v.t = "dict" -> [i \in 1..Len(v.o) |-> PyStr(v.o[i].k)]
      [] OTHER -> <<>>

----------------------------------------------------------------------------
(* datetime.strptime(s, '%Y-%m-%d %H:%M:%S').timestamp(), line 84 *)

DigitValue(ch) ==
    CASE ch = "0" -> 0 [] ch = "1" -> 1 [] ch = "2" -> 2 [] ch = "3" -> 3
      [] ch = "4" -> 4 [] ch = "5" -> 5 [] ch = "6" -> 6 [] ch = "7" -> 7
      [] ch = "8" -> 8 [] ch = "9" -> 9 [] OTHER -> 0

NonZero == Digits \ {"0"}

(* _strptime.TimeRE: the alternatives of each directive, in the order the   *)
(* regular expression tries them; an alternative is one character class    *)
(* per position                                                            *)
Alternatives(d) ==
    CASE d = "Y" -> << <<Digits, Digits, Digits, Digits>> >>
      [] d = "m" -> << <<{"1"}, {"0", "1", "2"}>>, <<{"0"}, NonZero>>, <<NonZero>> >>
      [] d = "d" -> << <<{"3"}, {"0", "1"}>>, <<{"1", "2"}, Digits>>,
                       <<{"0"}, NonZero>>, <<NonZero>>, <<{" "}, NonZero>> >>
      [] d = "H" -> << <<{"2"}, {"0", "1", "2", "3"}>>, <<{"0", "1"}, Digits>>,
                       <<Digits>> >>
      [] d = "M" -> << <<{"0", "1", "2", "3", "4", "5"}, Digits>>, <<Digits>> >>
      [] d = "S" -> << <<{"6"}, {"0", "1"}>>,
                       <<{"0", "1", "2", "3", "4", "5"}, Digits>>, <<Digits>> >>

(* whether the character classes of alt match s from position i *)
AltMatches(s, i, alt) ==
    /\ i + Len(alt) - 1 <= Len(s)
    /\ \A p \in 1..Len(alt) : s[i + p - 1] \in alt[p]

(* int() of the token s[i .. i+w-1], a leading space skipped *)
RECURSIVE TokenValue(_, _, _)
TokenValue(s, i, w) ==
    IF w = 0 THEN 0
    ELSE TokenValue(s, i, w - 1) * 10 + DigitValue(s[i + w - 1])

(* the number of spaces of s from position i on *)
RECURSIVE SpaceRun(_, _)
SpaceRun(s, i) ==
    IF i <= Len(s) /\ s[i] = " " THEN 1 + SpaceRun(s, i + 1) ELSE 0

NoMatch == [ok |-> FALSE, end |-> 0, found |-> <<>>]

(* re.match of the compiled format against s: format position j, string    *)
(* position i, the directive values found so far.  A directive backtracks   *)
(* over its alternatives in order; white space in the format is \s+         *)
RECURSIVE Match(_, _, _, _, _)
RECURSIVE TryAlternatives(_, _, _, _, _, _, _)
Match(s, i, f, j, found) ==
    IF j > Len(f) THEN [ok |-> TRUE, end |-> i, found |-> found]
    ELSE IF f[j] = "%"
    THEN TryAlternatives(s, i, f, j, found, Alternatives(f[j + 1]), 1)
    ELSE IF f[j] = " "
    THEN IF SpaceRun(s, i) = 0 THEN NoMatch
         ELSE Match(s, i + SpaceRun(s, i), f, j + 1, found)
    ELSE IF i <= Len(s) /\ s[i] = f[j] THEN Match(s, i + 1, f, j + 1, found)
    ELSE NoMatch

TryAlternatives(s, i, f, j, found, alts, a) ==
    IF a > Len(alts) THEN NoMatch
    ELSE IF AltMatches(s, i, alts[a])
    THEN LET w == Len(alts[a])
             rest == Match(s, i + w, f, j + 2, Append(found, TokenValue(s, i, w)))
         IN  IF rest.ok THEN rest
             ELSE TryAlternatives(s, i, f, j, found, alts, a + 1)
    ELSE TryAlternatives(s, i, f, j, found, alts, a + 1)

IsLeap(y) == (y % 4 = 0 /\ y % 100 # 0) \/ y % 400 = 0

DaysInMonth(y, m) ==
    IF m = 2 THEN (IF IsLeap(y) THEN 29 ELSE 28)
    ELSE IF m \in {4, 6, 9, 11} THEN 30 ELSE 31

(* days from 1970-01-01 to the civil date y-m-d *)
DaysFromCivil(y, m, d) ==
    LET yy == IF m <= 2 THEN y - 1 ELSE y
        era == yy \div 400
        yoe == yy - era * 400
        mp == IF m > 2 THEN m - 3 ELSE m + 9
        doy == (153 * mp + 2) \div 5 + d - 1
        doe == yoe * 365 + yoe \div 4 - yoe \div 100 + doy
    IN  era * 146097 + doe - 719468

(* int(datetime.strptime(v, date_format).timestamp()): TypeError when v is  *)
(* no str; ValueError when the format does not match, when text remains     *)
(* after the match, or when the fields are no date (year 0, day past the    *)
(* month's end, second above 59).  The naive datetime is read in the        *)
(* host's time zone, taken to be UTC here.                                  *)
ParseDate(v) ==
    IF v.t # "str" THEN Raise("TypeError")
    ELSE LET m == Match(v.s, 1, date_format, 1, <<>>)
         IN  IF ~m.ok \/ m.end # Len(v.s) + 1 THEN Raise("ValueError")
             ELSE LET Y == m.found[1]  mo == m.found[2]  D == m.found[3]
                      H == m.found[4]  Mi == m.found[5]  S == m.found[6]
                  IN  IF Y < 1 \/ D > DaysInMonth(Y, mo) \/ S > 59
                      THEN Raise("ValueError")
                      ELSE Ok(DaysFromCivil(Y, mo, D) * 86400
                              + H * 3600 + Mi * 60 + S)

----------------------------------------------------------------------------
(* The loop body, lines 75-86 *)

RECURSIVE Decimal(_)
Decimal(n) ==
    IF n < 0 THEN <<"-">> \o Decimal(-n)
    ELSE IF n < 10 THEN <<HexDigits[n + 1]>>
    ELSE Decimal(n \div 10) \o <<HexDigits[(n % 10) + 1]>>

(* format(v) inside an f-string, for the scalar values *)
Format(v) ==
    CASE v.t = "str" -> v.s
      [] v.t = "int" -> Decimal(v.n)
      [] v.t = "bool" -> IF v.n = 1 THEN <<"T", "r", "u", "e">>
                         ELSE <<"F", "a", "l", "s", "e">>
      [] v.t = "NoneType" -> <<"N", "o", "n", "e">>


(* variant of DescLink: the "/torrent/" path segment left out               *)
DescLinkNoPath(info_hash) == url \o Format(info_hash)

(* lines 77 and 83 *)
MagnetLink(info_hash) == magnet_prefix \o Format(info_hash)
DescLink(info_hash) == url \o torrent_path \o Format(info_hash)

(* lines 75-85: the dict display evaluates its values top to bottom, so    *)
(* the first failing subscript or the failing strptime ends the iteration   *)
TorrentInfo(result) ==
    LET info_hash == Subscript(result, k_info_hash)
        title == Subscript(result, k_title)
        file_size == Subscript(result, k_file_size)
        seeders == Subscript(result, k_seeders)
        leechers == Subscript(result, k_leechers)
        date_uploaded == Subscript(result, k_date_uploaded)
        pub_date == ParseDate(date_uploaded.val)
    IN  IF info_hash.exc # "none" THEN Raise(info_hash.exc)
        ELSE IF title.exc # "none" THEN Raise(title.exc)
        ELSE IF file_size.exc # "none" THEN Raise(file_size.exc)
        ELSE IF seeders.exc # "none" THEN Raise(seeders.exc)
        ELSE IF leechers.exc # "none" THEN Raise(leechers.exc)
        ELSE IF date_uploaded.exc # "none" THEN Raise(date_uploaded.exc)
        ELSE IF pub_date.exc # "none" THEN Raise(pub_date.exc)
        ELSE Ok([link |-> MagnetLink(info_hash.val),
                 name |-> title.val,
                 size |-> file_size.val,
                 seeds |-> seeders.val,
                 leech |-> leechers.val,
                 engine_url |-> url,
                 desc_link |-> DescLink(info_hash.val),
                 pub_date |-> pub_date.val])

----------------------------------------------------------------------------
(* Inputs: what the host passes to search and what retrieve_url answers *)

RECURSIVE SeqsUpTo(_, _)
SeqsUpTo(S, n) ==
    IF n = 0 THEN {<<>>}
    ELSE LET shorter == SeqsUpTo(S, n - 1)
         IN  shorter \cup {Append(s, x) : s \in {t \in shorter : Len(t) = n - 1}, x \in S}

UbuntuLinux == <<"U", "b", "u", "n", "t", "u", " ", "L", "i", "n", "u", "x">>
QueryAlphabet == {"a", " ", "+", "&", "=", "%", "é"}
Whats == SeqsUpTo(QueryAlphabet, MaxLen) \cup {UbuntuLinux}

(* a provider record: a JSON object with the six fields of the wire contract *)
Record(info_hash, title, file_size, seeders, leechers, date_uploaded) ==
    PyDict(<<Entry(k_info_hash, info_hash), Entry(k_title, title),
             Entry(k_file_size, file_size), Entry(k_seeders, seeders),
             Entry(k_leechers, leechers), Entry(k_date_uploaded, date_uploaded)>>)

(* a dict without key *)
Without(v, key) == PyDict(SelectSeq(v.o, LAMBDA e : e.k # key))

Date1 == <<"2", "0", "2", "4", "-", "0", "1", "-", "0", "2", " ", "0", "3", ":", "0", "4", ":", "0", "5">>
NotADate == <<"n", "o", "t", "-", "a", "-", "d", "a", "t", "e">>
DateOnly == <<"2", "0", "2", "4", "-", "0", "1", "-", "0", "2">>
Hash1 == <<"A", "B", "C", "1", "2", "3">>
Hash2 == <<"D", "E", "F", "4", "5", "6">>

GoodRecords ==
    {Record(PyStr(h), PyStr(t), PyInt(100), PyInt(1), PyInt(2), PyStr(Date1)) :
        h \in {Hash1, Hash2}, t \in {<<"T">>, <<"U">>}}

SampleRecord == Record(PyStr(Hash1), PyStr(<<"T">>), PyInt(100), PyInt(1), PyInt(2), PyStr(Date1))

BadRecords ==
    {Without(SampleRecord, k_title),
     Without(SampleRecord, k_info_hash),
     Record(PyStr(Hash1), PyStr(<<"T">>), PyInt(100), PyInt(1), PyInt(2), PyStr(NotADate)),
     Record(PyStr(Hash2), PyStr(<<"T">>), PyInt(100), PyInt(1), PyInt(2), PyStr(DateOnly)),
     Record(PyStr(Hash1), PyStr(<<"T">>), PyInt(100), PyInt(1), PyInt(2), PyInt(1704164645)),
     PyStr(<<"x">>)}

Elements == GoodRecords \cup BadRecords

(* the values of data.results that are no JSON array *)
NonSequences ==
    {PyNone, PyBool(TRUE), PyInt(0), PyInt(7), PyStr(<<>>), PyStr(<<"a", "b">>),
     PyDict(<<>>), PyDict(<<Entry(k_title, PyInt(1))>>)}

Response(r) == PyDict(<<Entry(k_data, PyDict(<<Entry(k_results, r)>>))>>)

(* documents in which the path data.results does not exist *)
PathlessDocuments ==
    {PyNone, PyList(<<>>), PyInt(3), PyDict(<<>>),
     PyDict(<<Entry(k_results, PyList(<<>>))>>),
     PyDict(<<Entry(k_data, PyNone)>>),
     PyDict(<<Entry(k_data, PyList(<<>>))>>),
     PyDict(<<Entry(k_data, PyDict(<<>>))>>),
     PyDict(<<Entry(k_data, PyDict(<<Entry(k_title, PyList(<<>>))>>))>>)}

Documents ==
    {Response(PyList(a)) : a \in SeqsUpTo(Elements, MaxResults)}
    \cup {Response(r) : r \in NonSequences}
    \cup PathlessDocuments

Answer(fails, body) == [fails |-> fails, body |-> body]
TransportFailure == Answer(TRUE, Malformed)

Nets ==
    {TransportFailure, Answer(FALSE, Malformed)}
    \cup {Answer(FALSE, Document(d)) : d \in Documents}

OtherRecord ==
    Record(PyStr(Hash2), PyStr(<<"U">>), PyInt(100), PyInt(1), PyInt(2), PyStr(Date1))
BadDateRecord ==
    Record(PyStr(Hash1), PyStr(<<"T">>), PyInt(100), PyInt(1), PyInt(2), PyStr(NotADate))

(* the answers of the concurrent calls *)
ConcurrentNets ==
    {Answer(FALSE, Malformed),
     Answer(FALSE, Document(Response(PyList(<<SampleRecord, OtherRecord>>)))),
     Answer(FALSE, Document(Response(PyList(<<OtherRecord, BadDateRecord, SampleRecord>>))))}

FewNets ==
    {TransportFailure, Answer(FALSE, Malformed),
     Answer(FALSE, Document(Response(PyList(<<>>)))),
     Answer(FALSE, Document(Response(PyList(<<SampleRecord>>))))}

----------------------------------------------------------------------------
(* The calls of search.  A call the host has not made is "idle"; a call     *)
(* that raised keeps its pc at the statement that raised, with err set.     *)


(* variant of Running: a call that raised goes on from the statement that   *)
(* raised                                                                   *)
RunningAnyway(c, stmt) == pc[c] = stmt

Running(c, stmt) == pc[c] = stmt /\ err[c] = "none"

InitLocals ==
    /\ supported_categories = CategoryTable
    /\ categories = [c \in Calls |-> <<>>]
    /\ response = [c \in Calls |-> Malformed]
    /\ json_data = [c \in Calls |-> Unbound]
    /\ results = [c \in Calls |-> Unbound]
    /\ it = [c \in Calls |-> 0]
    /\ err = [c \in Calls |-> "none"]
    /\ fetched = <<>>
    /\ printed = <<>>

(* the values of the arguments and of the answer when only call 1 is made *)
OnlyFirst(x, rest) == [c \in Calls |-> IF c = 1 THEN x ELSE rest]

(* the host makes one search call; every result page is possible *)
Init ==
    /\ InitLocals
    /\ pc = OnlyFirst("resolve", "idle")
    /\ what = [c \in Calls |-> UbuntuLinux]
    /\ \E k \in {"all", "anime"} : cat = OnlyFirst(k, "all")
    /\ \E n \in Nets : net = OnlyFirst(n, TransportFailure)

(* the host makes one search call; every query and category is possible *)
InitQuery ==
    /\ InitLocals
    /\ pc = OnlyFirst("resolve", "idle")
    /\ \E w \in Whats : what = OnlyFirst(w, UbuntuLinux)
    /\ \E k \in PossibleCategories \cup {"bogus"} : cat = OnlyFirst(k, "all")
    /\ \E n \in FewNets : net = OnlyFirst(n, TransportFailure)

(* the host makes NumCalls search calls at once *)
InitConcurrent ==
    /\ InitLocals
    /\ pc = [c \in Calls |-> "resolve"]
    /\ what = [c \in Calls |-> UbuntuLinux]
    /\ \E k \in {"all", "books"} : cat = OnlyFirst(k, "all")
    /\ net \in [Calls -> ConcurrentNets]


(* variant of Resolve: the joined string is written back into the table     *)
ResolveCaching(c) ==
    /\ pc[c] = "resolve" /\ err[c] = "none"
    /\ LET category_value == Lookup(supported_categories, cat[c])
       IN  IF category_value.exc # "none"
           THEN /\ err' = [err EXCEPT ![c] = category_value.exc]
                /\ UNCHANGED <<pc, categories, supported_categories>>
           ELSE /\ categories' = [categories EXCEPT
                                    ![c] = ResolveCategories(category_value.val)]
                /\ supported_categories' =
                        [supported_categories EXCEPT
                            ![cat[c]] = PyStr(ResolveCategories(category_value.val))]
                /\ pc' = [pc EXCEPT ![c] = "fetch"]
                /\ UNCHANGED err
    /\ UNCHANGED <<what, cat, net, response, json_data, results, it, fetched, printed>>

(* lines 65-68: the category lookup and the join *)
Resolve(c) ==
    /\ Running(c, "resolve")
    /\ LET category_value == Lookup(supported_categories, cat[c])
       IN  IF category_value.exc # "none"
           THEN /\ err' = [err EXCEPT ![c] = category_value.exc]
                /\ UNCHANGED <<pc, categories>>
           ELSE /\ categories' = [categories EXCEPT
                                    ![c] = ResolveCategories(category_value.val)]
                /\ pc' = [pc EXCEPT ![c] = "fetch"]
                /\ UNCHANGED err
    /\ UNCHANGED <<supported_categories, what, cat, net, response, json_data,
                   results, it, fetched, printed>>

(* line 69: retrieve_url(base_url % urlencode(params)) *)
Fetch(c) ==
    /\ Running(c, "fetch")
    /\ fetched' = Append(fetched, [call |-> c, url |-> RequestUrl(what[c], categories[c])])
    /\ IF net[c].fails
       THEN /\ err' = [err EXCEPT ![c] = "TransportError"]
            /\ UNCHANGED <<pc, response>>
       ELSE /\ response' = [response EXCEPT ![c] = net[c].body]
            /\ pc' = [pc EXCEPT ![c] = "decode"]
            /\ UNCHANGED err
    /\ UNCHANGED <<supported_categories, what, cat, net, categories, json_data,
                   results, it, printed>>

(* line 71: json_data = json.loads(response) *)
Decode(c) ==
    /\ Running(c, "decode")
    /\ LET decoded == json_loads(response[c])
       IN  IF decoded.exc # "none"
           THEN /\ err' = [err EXCEPT ![c] = decoded.exc]
                /\ UNCHANGED <<pc, json_data>>
           ELSE /\ json_data' = [json_data EXCEPT ![c] = decoded.val]
                /\ pc' = [pc EXCEPT ![c] = "navigate"]
                /\ UNCHANGED err
    /\ UNCHANGED <<supported_categories, what, cat, net, categories, response,
                   results, it, fetched, printed>>

(* line 72: results = json_data['data']['results'] *)
Results(c) ==
    /\ Running(c, "navigate")
    /\ LET found == Navigate(json_data[c])
       IN  IF found.exc # "none"
           THEN /\ err' = [err EXCEPT ![c] = found.exc]
                /\ UNCHANGED <<pc, results>>
           ELSE /\ results' = [results EXCEPT ![c] = found.val]
                /\ pc' = [pc EXCEPT ![c] = "for"]
                /\ UNCHANGED err
    /\ UNCHANGED <<supported_categories, what, cat, net, categories, response,
                   json_data, it, fetched, printed>>

(* line 74: the for statement takes an iterator of results *)
ForIter(c) ==
    /\ Running(c, "for")
    /\ IF Iterable(results[c])
       THEN pc' = [pc EXCEPT ![c] = "loop"] /\ UNCHANGED err
       ELSE err' = [err EXCEPT ![c] = "TypeError"] /\ UNCHANGED pc
    /\ UNCHANGED <<supported_categories, what, cat, net, categories, response,
                   json_data, results, it, fetched, printed>>

(* whether the loop body delivers the record it built: line 86 *)
Delivers(info) == info.exc = "none"


(* variant of NextItem: the items taken from the end of results             *)
NextItemReversed(c) == Items(results[c])[Len(Items(results[c])) - it[c]]

(* the item the next iteration takes *)
NextItem(c) == Items(results[c])[it[c] + 1]


(* variant of LoopBody: an item that cannot be normalized is skipped        *)
LoopBodySkipping(c) ==
    /\ pc[c] = "loop" /\ err[c] = "none"
    /\ it[c] < Len(Items(results[c]))
    /\ it' = [it EXCEPT ![c] = it[c] + 1]
    /\ LET info == TorrentInfo(NextItem(c))
       IN  IF Delivers(info)
           THEN printed' = Append(printed, [call |-> c, info |-> info.val])
           ELSE UNCHANGED printed
    /\ UNCHANGED <<supported_categories, pc, what, cat, net, categories, response,
                   json_data, results, err, fetched>>

(* lines 74-86: one iteration, the item taken, normalized and printed *)
LoopBody(c) ==
    /\ Running(c, "loop")
    /\ it[c] < Len(Items(results[c]))
    /\ it' = [it EXCEPT ![c] = it[c] + 1]
    /\ LET info == TorrentInfo(NextItem(c))
       IN  IF Delivers(info)
           THEN /\ printed' = Append(printed, [call |-> c, info |-> info.val])
                /\ UNCHANGED err
           ELSE /\ err' = [err EXCEPT ![c] = info.exc]
                /\ UNCHANGED printed
    /\ UNCHANGED <<supported_categories, pc, what, cat, net, categories, response,
                   json_data, results, fetched>>

(* line 74: the iterator is exhausted and search returns *)
LoopEnd(c) ==
    /\ Running(c, "loop")
    /\ it[c] = Len(Items(results[c]))
    /\ pc' = [pc EXCEPT ![c] = "done"]
    /\ UNCHANGED <<supported_categories, what, cat, net, categories, response,
                   json_data, results, it, err, fetched, printed>>

Next ==
    \E c \in Calls :
        \/ Resolve(c)
        \/ Fetch(c)
        \/ Decode(c)
        \/ Results(c)
        \/ ForIter(c)
        \/ LoopBody(c)
        \/ LoopEnd(c)

Spec == Init /\ [][Next]_vars
SpecQuery == InitQuery /\ [][Next]_vars
SpecConcurrent == InitConcurrent /\ [][Next]_vars

----------------------------------------------------------------------------
(* What the properties below speak of *)

(* the prettyPrinter arguments of call c, in call order *)
Printed(c) ==
    LET own == SelectSeq(printed, LAMBDA e : e.call = c)
    IN  [i \in 1..Len(own) |-> own[i].info]

(* the URLs call c passed to retrieve_url, in call order *)
Fetched(c) ==
    LET own == SelectSeq(fetched, LAMBDA e : e.call = c)
    IN  [i \in 1..Len(own) |-> own[i].url]

Failed(c) == err[c] # "none"
Returned(c) == pc[c] = "done"

(* the value of member key of a JSON object that has it *)
HasMember(v, key) == v.t = "dict" /\ \E i \in 1..Len(v.o) : v.o[i].k = key
Member(v, key) == (CHOOSE e \in {v.o[i] : i \in 1..Len(v.o)} : e.k = key).v

(* call c was answered with a JSON document *)
GotDocument(c) == ~net[c].fails /\ net[c].body.valid
Doc(c) == net[c].body.doc

(* the document of call c has the path data.results *)
HasPath(c) ==
    /\ GotDocument(c)
    /\ HasMember(Doc(c), k_data)
    /\ HasMember(Member(Doc(c), k_data), k_results)
PathValue(c) == Member(Member(Doc(c), k_data), k_results)

(* the document of call c has an array at data.results: its records *)
HasRecords(c) == HasPath(c) /\ PathValue(c).t = "list"
Records(c) == PathValue(c).a

RequiredFields ==
    {k_info_hash, k_title, k_file_size, k_seeders, k_leechers, k_date_uploaded}

(* the date texts of the inputs that are not of the form %Y-%m-%d %H:%M:%S *)
MismatchedDates == {NotADate, DateOnly}

(* a record with a required field missing or a date of another format *)
MalformedRecord(r) ==
    /\ r.t = "dict"
    /\ \/ \E k \in RequiredFields : ~HasMember(r, k)
       \/ /\ HasMember(r, k_date_uploaded)
          /\ Member(r, k_date_uploaded).t = "str"
          /\ Member(r, k_date_uploaded).s \in MismatchedDates

(* a record with the six fields, a text info_hash and a date of the format *)
WellFormedRecord(r) ==
    /\ r.t = "dict"
    /\ \A k \in RequiredFields : HasMember(r, k)
    /\ Member(r, k_info_hash).t = "str"
    /\ Member(r, k_date_uploaded) = PyStr(Date1)

(* the epoch seconds of Date1, 2024-01-02 03:04:05 UTC *)
Date1Epoch == 19724 * 86400 + 3 * 3600 + 4 * 60 + 5

(* the record the host is to receive for a well-formed provider record *)
Normalized(r) ==
    [link |-> magnet_prefix \o Member(r, k_info_hash).s,
     name |-> Member(r, k_title),
     size |-> Member(r, k_file_size),
     seeds |-> Member(r, k_seeders),
     leech |-> Member(r, k_leechers),
     engine_url |-> url,
     desc_link |-> url \o torrent_path \o Member(r, k_info_hash).s,
     pub_date |-> Date1Epoch]

(* the first malformed record of a sequence, 0 when there is none *)
FirstMalformed(rs) ==
    IF \E i \in 1..Len(rs) : MalformedRecord(rs[i])
    THEN CHOOSE i \in 1..Len(rs) :
            MalformedRecord(rs[i]) /\ \A j \in 1..(i - 1) : ~MalformedRecord(rs[j])
    ELSE 0

IsPrefix(s, t) == Len(s) <= Len(t) /\ \A i \in 1..Len(s) : s[i] = t[i]

----------------------------------------------------------------------------
(* the categories parameter each key of the table is to resolve to *)
ExpectedCategories(k) ==
    CASE k = "all" -> <<>>
      [] k = "movies" -> <<"m", "o", "v", "i", "e", "s">>
      [] k = "tv" -> <<"t", "v", " ", "s", "h", "o", "w", "s">>
      [] k = "games" -> <<"g", "a", "m", "e", "s">>
      [] k = "music" -> <<"m", "u", "s", "i", "c">>
      [] k = "software" -> <<"s", "o", "f", "t", "w", "a", "r", "e">>
      [] k = "books" -> <<"a", "u", "d", "i", "o", "b", "o", "o", "k", ",", "p", "a", "p", "e", "r">>

(* C1: for every category token of the documented enumeration (all, anime,  *)
(* books, games, movies, music, pictures, software, tv) the lookup of       *)
(* search succeeds, and the categories parameter is the comma-joined string *)
(* for a sequence (books) and the raw string otherwise.                     *)
C1_EveryPossibleCategoryResolves ==
    \A c \in Calls :
        (cat[c] \in PossibleCategories /\ pc[c] # "idle") =>
            /\ ~(pc[c] = "resolve" /\ Failed(c))
            /\ (pc[c] # "resolve" /\ cat[c] \in DOMAIN CategoryTable) =>
                    categories[c] = ExpectedCategories(cat[c])

(* C2: a call whose category token is no key of the category table fails    *)
(* with the lookup error at the lookup; retrieve_url and prettyPrinter are  *)
(* never invoked in that call.                                              *)
C2_UnknownCategoryFailsBeforeFetch ==
    \A c \in Calls :
        cat[c] \notin DOMAIN CategoryTable =>
            /\ pc[c] = "resolve"
            /\ err[c] \in {"none", "KeyError"}
            /\ Fetched(c) = <<>>
            /\ Printed(c) = <<>>

C2_Witness ==
    \E c \in Calls : cat[c] \notin DOMAIN CategoryTable /\ err[c] = "KeyError"

(* C3: when search returns on a response whose data.results holds n         *)
(* records, prettyPrinter was called n times, and the i-th call carries the *)
(* normalization of the i-th record: array order, nothing filtered,         *)
(* deduplicated, reordered or batched.                                      *)
C3_DeliversEveryRecordInOrder ==
    \A c \in Calls :
        (Returned(c) /\ HasRecords(c)) =>
            /\ Len(Printed(c)) = Len(Records(c))
            /\ (\A i \in 1..Len(Records(c)) : WellFormedRecord(Records(c)[i])) =>
                    \A i \in 1..Len(Records(c)) :
                        Printed(c)[i] = Normalized(Records(c)[i])

C3_Witness ==
    \E c \in Calls :
        /\ Returned(c) /\ HasRecords(c)
        /\ Len(Records(c)) = 3
        /\ Records(c)[1] # Records(c)[2]
        /\ Records(c)[1] = Records(c)[3]
        /\ Len(Printed(c)) = 3

(* the response of call c is a document without a sequence at data.results *)
NoSequence(c) == GotDocument(c) /\ ~HasRecords(c)

(* C4, as claimed: when data.results is absent or no sequence (object,      *)
(* string, number, boolean, null, the empty ones included), search fails    *)
(* and makes no prettyPrinter call.                                         *)
C4_NoSequenceAlwaysFails ==
    \A c \in Calls :
        NoSequence(c) => (Printed(c) = <<>> /\ ~Returned(c))

(* data.results of call c is an empty string or an empty object *)
EmptyNonSequence(c) ==
    /\ HasPath(c)
    /\ \/ PathValue(c).t = "str" /\ PathValue(c).s = <<>>
       \/ PathValue(c).t = "dict" /\ PathValue(c).o = <<>>

(* C4, amended: when data.results is absent, search fails at the navigation *)
(* with KeyError or TypeError; when it is null, a boolean or a number,      *)
(* search fails at the for statement with TypeError; when it is a non-empty *)
(* string or object, search fails with TypeError on the first item; when it *)
(* is an empty string or an empty object, search returns without an error.  *)
(* In none of these cases is prettyPrinter called.                          *)
C4_NoSequenceNeverPrints ==
    \A c \in Calls :
        NoSequence(c) =>
            /\ Printed(c) = <<>>
            /\ ~HasPath(c) =>
                    /\ pc[c] \in {"resolve", "fetch", "decode", "navigate"}
                    /\ (pc[c] = "navigate" /\ Failed(c)) =>
                            err[c] \in {"KeyError", "TypeError"}
            /\ (HasPath(c) /\ PathValue(c).t \in {"NoneType", "bool", "int"}) =>
                    /\ pc[c] \in {"resolve", "fetch", "decode", "navigate", "for"}
                    /\ (pc[c] = "for" /\ Failed(c)) => err[c] = "TypeError"
            /\ (HasPath(c) /\ PathValue(c).t \in {"str", "dict"}
                    /\ ~EmptyNonSequence(c)) =>
                    /\ ~Returned(c)
                    /\ it[c] <= 1
                    /\ it[c] = 1 => err[c] = "TypeError"
            /\ EmptyNonSequence(c) =>
                    /\ pc[c] \in {"for", "loop", "done"} => ~Failed(c)
                    /\ it[c] = 0

C4_Witness ==
    \E c \in Calls :
        /\ NoSequence(c)
        /\ \/ EmptyNonSequence(c) /\ Returned(c)
           \/ HasPath(c) /\ PathValue(c).t = "NoneType" /\ pc[c] = "for" /\ Failed(c)

(* call c ends at record k: the records before k delivered, nothing after *)
AbortsAt(c, k) ==
    /\ ~Returned(c)
    /\ it[c] <= k
    /\ Len(Printed(c)) = (IF it[c] = k THEN k - 1 ELSE it[c])
    /\ \A i \in 1..Len(Printed(c)) : Printed(c)[i] = Normalized(Records(c)[i])
    /\ it[c] = k => (pc[c] = "loop" /\ err[c] \in {"KeyError", "ValueError"})

(* C5: when the record at index k is the first malformed one (a required    *)
(* field missing, or a date of another format) after well-formed records,   *)
(* search aborts there: prettyPrinter has received the normalizations of    *)
(* the records before k in order, the malformed record is never delivered   *)
(* and no later record is taken.                                            *)
C5_MalformedRecordAborts ==
    \A c \in Calls :
        (/\ HasRecords(c)
         /\ FirstMalformed(Records(c)) # 0
         /\ \A j \in 1..(FirstMalformed(Records(c)) - 1) :
                WellFormedRecord(Records(c)[j])) =>
            AbortsAt(c, FirstMalformed(Records(c)))

C5_Witness ==
    \E c \in Calls :
        /\ HasRecords(c)
        /\ Len(Records(c)) = 3
        /\ FirstMalformed(Records(c)) = 2
        /\ WellFormedRecord(Records(c)[1])
        /\ WellFormedRecord(Records(c)[3])
        /\ Failed(c) /\ it[c] = 2
        /\ Len(Printed(c)) = 1

(* C6: when the fetched body is no JSON, search fails with the decode error *)
(* at json.loads, and prettyPrinter is called zero times.                   *)
C6_MalformedBodyFailsBeforePrint ==
    \A c \in Calls :
        (~net[c].fails /\ ~net[c].body.valid) =>
            /\ Printed(c) = <<>>
            /\ pc[c] \in {"resolve", "fetch", "decode"}
            /\ (pc[c] = "decode" /\ Failed(c)) => err[c] = "JSONDecodeError"

C6_Witness ==
    \E c \in Calls :
        /\ ~net[c].fails /\ ~net[c].body.valid
        /\ pc[c] = "decode" /\ err[c] = "JSONDecodeError"

(* the literals of the wire contract *)
MagnetPrefix == <<"m", "a", "g", "n", "e", "t", ":", "?", "x", "t", "=", "u", "r", "n", ":", "b", "t", "i", "h", ":">>
ProviderUrl == <<"h", "t", "t", "p", "s", ":", "/", "/", "i", "n", "d", "e", "x", ".", "t", "o", "r", "r", "u", "s", "t", "-", "d", "e", "m", "o", ".", "c", "o", "m">>
TorrentPath == <<"/", "t", "o", "r", "r", "e", "n", "t", "/">>

MappedFrom(info, r) ==
    /\ info.link = MagnetPrefix \o Member(r, k_info_hash).s
    /\ info.desc_link = ProviderUrl \o TorrentPath \o Member(r, k_info_hash).s
    /\ info.engine_url = ProviderUrl
    /\ info.name = Member(r, k_title)
    /\ info.size = Member(r, k_file_size)
    /\ info.seeds = Member(r, k_seeders)
    /\ info.leech = Member(r, k_leechers)

(* C7: every record delivered for a well-formed provider record has         *)
(* link = "magnet:?xt=urn:btih:" + info_hash, desc_link = url + "/torrent/" *)
(* + info_hash, engine_url = url, and name, size, seeds, leech equal to     *)
(* title, file_size, seeders, leechers; two records with the same info_hash *)
(* get the same link and desc_link whatever their other fields.             *)
C7_FieldMapping ==
    \A c \in Calls :
        HasRecords(c) =>
            /\ Len(Printed(c)) <= Len(Records(c))
            /\ \A i \in 1..Len(Printed(c)) :
                    WellFormedRecord(Records(c)[i]) =>
                        MappedFrom(Printed(c)[i], Records(c)[i])
            /\ \A i, j \in 1..Len(Printed(c)) :
                    Member(Records(c)[i], k_info_hash) = Member(Records(c)[j], k_info_hash) =>
                        /\ Printed(c)[i].link = Printed(c)[j].link
                        /\ Printed(c)[i].desc_link = Printed(c)[j].desc_link

C7_Witness ==
    \E c \in Calls :
        /\ HasRecords(c)
        /\ Len(Printed(c)) >= 2
        /\ Member(Records(c)[1], k_info_hash) = Member(Records(c)[2], k_info_hash)
        /\ Member(Records(c)[1], k_title) # Member(Records(c)[2], k_title)
        /\ Printed(c)[1].link = Printed(c)[2].link
        /\ Printed(c)[1].name # Printed(c)[2].name

(* what a call that runs alone delivers for the records rs *)
RECURSIVE Deliverable(_)
Deliverable(rs) ==
    IF Len(rs) = 0 \/ ~WellFormedRecord(Head(rs)) THEN <<>>
    ELSE <<Normalized(Head(rs))>> \o Deliverable(Tail(rs))

AloneDelivers(c) == IF HasRecords(c) THEN Deliverable(Records(c)) ELSE <<>>

AloneReturns(c) ==
    /\ cat[c] \in DOMAIN CategoryTable
    /\ HasRecords(c)
    /\ \A i \in 1..Len(Records(c)) : WellFormedRecord(Records(c)[i])

(* C8: search calls may run concurrently: under every interleaving the      *)
(* category table is never modified, and each call delivers exactly the     *)
(* normalizations of its own response's records in its own order, as if it  *)
(* ran alone.                                                               *)
C8_ConcurrentCallsIndependent ==
    /\ supported_categories = CategoryTable
    /\ \A c \in Calls :
        /\ IsPrefix(Printed(c), AloneDelivers(c))
        /\ Returned(c) => (AloneReturns(c) /\ Printed(c) = AloneDelivers(c))
        /\ Failed(c) => (~AloneReturns(c) /\ Printed(c) = AloneDelivers(c))

C8_Witness ==
    /\ \A c \in Calls : Returned(c) \/ Failed(c)
    /\ \E i, j, k \in 1..Len(printed) :
        /\ i < j /\ j < k
        /\ printed[i].call = printed[k].call
        /\ printed[i].call # printed[j].call
    /\ \E c \in Calls : cat[c] = "books" /\ Returned(c)
    /\ \E c \in Calls : Failed(c) /\ Len(Printed(c)) = 1

(* the request line of the wire contract, and form-decoding *)
ApiPath == <<"/", "a", "p", "i", "/", "v", "1", "/", "t", "o", "r", "r", "e", "n", "t", "s", "?">>
SearchKey == <<"s", "e", "a", "r", "c", "h">>
CategoriesKey == <<"c", "a", "t", "e", "g", "o", "r", "i", "e", "s">>
UbuntuAllQuery == <<"s", "e", "a", "r", "c", "h", "=", "U", "b", "u", "n", "t", "u", "+", "L", "i", "n", "u", "x", "&", "c", "a", "t", "e", "g", "o", "r", "i", "e", "s", "=">>

CodePoint(ch) ==
    CASE ch = " " -> 32 [] ch = "%" -> 37 [] ch = "&" -> 38 [] ch = "+" -> 43
      [] ch = "," -> 44 [] ch = "=" -> 61 [] ch = "é" -> 233
Escaped == {" ", "%", "&", "+", ",", "=", "é"}
Unreserved == Letters \cup Digits \cup {"_", ".", "-", "~"}
HexSet == {HexDigits[i] : i \in 1..16}
HexValue(ch) == (CHOOSE i \in 1..16 : HexDigits[i] = ch) - 1
ByteAt(s, i) == 16 * HexValue(s[i + 1]) + HexValue(s[i + 2])
CharOf(cp) == CHOOSE ch \in Escaped : CodePoint(ch) = cp

(* s is form-encoded text: unreserved characters, '+', and %XX escapes *)
FormEncoded(s) ==
    \A i \in 1..Len(s) :
        \/ s[i] \in Unreserved \cup {"+"}
        \/ s[i] \in HexSet /\ i > 1 /\ (s[i - 1] = "%" \/ (i > 2 /\ s[i - 2] = "%"))
        \/ s[i] = "%" /\ i + 2 <= Len(s) /\ s[i + 1] \in HexSet /\ s[i + 2] \in HexSet

(* the text that the form-encoded s stands for *)
RECURSIVE FormDecode(_)
FormDecode(s) ==
    IF Len(s) = 0 THEN <<>>
    ELSE IF s[1] = "+" THEN <<" ">> \o FormDecode(Tail(s))
    ELSE IF s[1] # "%" THEN <<s[1]>> \o FormDecode(Tail(s))
    ELSE IF ByteAt(s, 1) < 128
    THEN <<CharOf(ByteAt(s, 1))>> \o FormDecode(SubSeq(s, 4, Len(s)))
    ELSE <<CharOf((ByteAt(s, 1) - 192) * 64 + ByteAt(s, 4) - 128)>>
            \o FormDecode(SubSeq(s, 7, Len(s)))

StartsWith(s, p) == Len(s) >= Len(p) /\ SubSeq(s, 1, Len(p)) = p
After(s, p) == SubSeq(s, Len(p) + 1, Len(s))
Count(s, ch) == Cardinality({i \in 1..Len(s) : s[i] = ch})

(* q is search=<enc w>&categories=<enc cats> *)
IsQueryString(q, w, cats) ==
    /\ Count(q, "&") = 1
    /\ Count(q, "=") = 2
    /\ LET amp == CHOOSE i \in 1..Len(q) : q[i] = "&"
           first == SubSeq(q, 1, amp - 1)
           second == SubSeq(q, amp + 1, Len(q))
       IN  /\ StartsWith(first, SearchKey \o <<"=">>)
           /\ StartsWith(second, CategoriesKey \o <<"=">>)
           /\ FormEncoded(After(first, SearchKey \o <<"=">>))
           /\ FormEncoded(After(second, CategoriesKey \o <<"=">>))
           /\ FormDecode(After(first, SearchKey \o <<"=">>)) = w
           /\ FormDecode(After(second, CategoriesKey \o <<"=">>)) = cats

(* C9: the URL passed to retrieve_url is the provider base URL followed by  *)
(* /api/v1/torrents?search=<enc>&categories=<enc>, one search key and one   *)
(* categories key in that order, <enc> the form-encoding of the query as    *)
(* given and of the resolved, comma-joined category value; for the query    *)
(* "Ubuntu Linux" and category "all" the URL contains                       *)
(* search=Ubuntu+Linux&categories= .                                        *)
C9_RequestUrl ==
    \A i \in 1..Len(fetched) :
        LET c == fetched[i].call
            u == fetched[i].url
        IN  /\ StartsWith(u, ProviderUrl \o ApiPath)
            /\ IsQueryString(After(u, ProviderUrl \o ApiPath), what[c],
                             ExpectedCategories(cat[c]))
            /\ (what[c] = UbuntuLinux /\ cat[c] = "all") =>
                    After(u, ProviderUrl \o ApiPath) = UbuntuAllQuery

C9_Witness ==
    /\ \E i \in 1..Len(fetched) :
        what[fetched[i].call] = <<"&", " ">> /\ cat[fetched[i].call] = "books"

(* the order of the steps of one call *)
StepsInOrder ==
    \A c \in Calls :
        /\ Len(Fetched(c)) <= 1
        /\ Fetched(c) # <<>> =>
                (pc[c] \notin {"idle", "resolve"} /\ cat[c] \in DOMAIN CategoryTable)
        /\ Printed(c) # <<>> =>
                /\ Fetched(c) # <<>>
                /\ GotDocument(c)
                /\ json_data[c] = Doc(c)
                /\ pc[c] \in {"loop", "done"}
        /\ err[c] = "TransportError" => Printed(c) = <<>>

NothingAfterError ==
    \A c \in Calls :
        /\ Failed(c) => (Fetched(c)' = Fetched(c) /\ Printed(c)' = Printed(c))
        /\ Fetched(c)' # Fetched(c) => pc[c] = "fetch"
        /\ Printed(c)' # Printed(c) => (pc[c] = "loop" /\ json_data[c] = Doc(c))

(* C10: in every call the steps come in the order category resolution,      *)
(* fetch, decode, prettyPrinter calls: retrieve_url is invoked at most once *)
(* and only after the category was resolved, every prettyPrinter call       *)
(* follows the fetch and the decoding of its body, after any error no       *)
(* further retrieve_url or prettyPrinter call happens in that call, and a   *)
(* transport error yields zero prettyPrinter calls.                         *)
C10_StepOrder == []StepsInOrder /\ [][NothingAfterError]_vars

C10_Witness ==
    \E c \in Calls :
        /\ Len(Fetched(c)) = 1
        /\ Len(Printed(c)) = 2
        /\ Failed(c)

====
